---- MODULE Spec2Model ----
(***************************************************************************)
(* Sudoku puzzle generation core of Sudoku_game.py: class SudokuGenerator  *)
(* (constructor, _is_valid, _fill_grid, _remove_cells, generate_sudoku).   *)
(*                                                                         *)
(* The recursion of _fill_grid is unfolded into an explicit stack of       *)
(* activation frames; one action is one step of the code (a call, one      *)
(* iteration of the candidate loop, a return).  The removal loop of        *)
(* _remove_cells is one action per iteration.                              *)
(*                                                                         *)
(* Randomness.  random.shuffle is driven by a small deterministic          *)
(* generator (rng): each shuffle yields the order selected by the current  *)
(* generator state and advances it, so a cell that is re-entered after     *)
(* backtracking gets a fresh order.  The runs differ in the state the      *)
(* generator starts in.  random.randint is an unconstrained choice: every  *)
(* clue count of the tier, and for the removal loop a cell out of a window *)
(* of the grid (Picks).                                                    *)
(***************************************************************************)
EXTENDS Integers, Sequences, FiniteSets, TLC

VARIABLES
    pc,               \* control point of the program
    difficulty,       \* self.difficulty ("None" before construction)
    grid,             \* self.grid, the list object _fill_grid works on ("<<>>" = not allocated)
    solution,         \* self.solution (<<>> = None)
    stack,            \* frames of the _fill_grid calls that are inside their candidate loop, innermost first
    ret,              \* value returned by the _fill_grid call that returned last
    rng,              \* state of the module-level random generator that random.shuffle consumes
    clues,            \* local `clues` of _remove_cells (0 outside _remove_cells)
    cells_to_remove,  \* local `cells_to_remove` of _remove_cells (0 outside _remove_cells)
    pick,             \* locals <<row, col>> of the removal loop (<<>> before the first draw)
    raised,           \* exception that left the constructor ("None" if none)
    generations,      \* number of generate_sudoku calls made on the object
    asked,            \* the `difficulty` argument the constructor was called with ("None" before the call)
    given             \* the grid as it was when the outermost _fill_grid call was made

vars == <<pc, difficulty, grid, solution, stack, ret, rng, clues,
          cells_to_remove, pick, raised, generations, asked, given>>

----------------------------------------------------------------------------
(* Bounds of the model *)

\* number of states of the generator behind random.shuffle; _fill_grid is
\* explored from every one of them
RngPeriod == 18

\* generator states a whole program run (constructor, generate_sudoku) and
\* a call of _fill_grid on a partial grid may start in
NumSeeds == 2

\* generate_sudoku calls made on one generator object
MaxGenerations == 2

\* cells of a complete grid that a partially filled input may have blank
BlankSpan == 6

\* the removal loop draws its cell among the first PickWindow non-zero cells
\* (row-major) and the first cell that is already zero
PickWindow == 1

----------------------------------------------------------------------------
(* Grids *)

Idx == 0..8
Digits == 1..9

\* Python's None (self.solution before the first generation)
None == <<>>

\* [[0] * 9 for _ in range(9)]
EmptyGrid == [r \in Idx |-> [c \in Idx |-> 0]]

\* grid[row][col] = num
SetCell(g, row, col, num) == [g EXCEPT ![row][col] = num]

\* number of non-zero cells of a grid
NonZero(g) == Cardinality({k \in 0..80 : g[k \div 9][k % 9] # 0})

\* _is_valid without the 3x3 box test
is_valid_NoBox(g, row, col, num) ==
    \A i \in 0..8 :
        /\ g[row][i] # num
        /\ g[i][col] # num

\* _is_valid that leaves the cell (row, col) itself out of its scan
is_valid_SkipSelf(g, row, col, num) ==
    \A i \in 0..8 :
        /\ i # col => g[row][i] # num
        /\ i # row => g[i][col] # num
        /\ ((row \div 3) * 3 + (i \div 3) # row \/ (col \div 3) * 3 + (i % 3) # col)
              => g[(row \div 3) * 3 + (i \div 3)][(col \div 3) * 3 + (i % 3)] # num

\* _is_valid(grid, row, col, num): num is absent from the row, the column
\* and the 3x3 box of (row, col); the cell (row, col) itself is not skipped
is_valid(g, row, col, num) ==
    \A i \in 0..8 :
        /\ g[row][i] # num
        /\ g[i][col] # num
        /\ g[(row \div 3) * 3 + (i \div 3)][(col \div 3) * 3 + (i % 3)] # num

\* the first cell, in the row-major scan of _fill_grid, that holds 0
HasEmpty(g) == \E k \in 0..80 : g[k \div 9][k % 9] = 0

FirstEmpty(g) ==
    CHOOSE k \in 0..80 :
        /\ g[k \div 9][k % 9] = 0
        /\ \A j \in 0..(k - 1) : g[j \div 9][j % 9] # 0

\* random.shuffle(random_nums): the order the generator state s yields, one of
\* the nine rotations of 1..9 and the nine rotations of 9..1
Shuffled(s) ==
    [i \in 1..9 |-> IF (s % 18) < 9 THEN ((i - 1 + s) % 9) + 1
                                    ELSE 9 - ((i - 1 + s) % 9)]

\* the generator state after one shuffle (a linear congruential step)
Advance(s) == (s * 7 + 5) % RngPeriod

----------------------------------------------------------------------------
(* _fill_grid *)

\* a call of _fill_grid starts: scan for the first empty cell; with none the
\* call returns True, otherwise the candidates are shuffled and the loop starts
FillCall ==
    /\ pc = "call"
    /\ IF HasEmpty(grid)
       THEN LET k == FirstEmpty(grid) IN
            /\ stack' = <<[row |-> k \div 9, col |-> k % 9,
                           random_nums |-> Shuffled(rng),
                           entry |-> grid]>> \o stack
            /\ rng' = Advance(rng)
            /\ pc' = "loop"
            /\ UNCHANGED ret
       ELSE /\ ret' = TRUE
            /\ pc' = "return"
            /\ UNCHANGED <<stack, rng>>
    /\ UNCHANGED <<difficulty, grid, solution, clues, cells_to_remove, pick,
                   raised, generations, asked, given>>

\* one iteration of `for num in random_nums`: a valid candidate is placed
\* and _fill_grid is called recursively, an invalid one is skipped
FillTry ==
    /\ pc = "loop"
    /\ Head(stack).random_nums # <<>>
    /\ LET f == Head(stack)
           num == Head(f.random_nums)
       IN  /\ stack' = <<[f EXCEPT !.random_nums = Tail(f.random_nums)]>>
                           \o Tail(stack)
           /\ IF is_valid(grid, f.row, f.col, num)
              THEN /\ grid' = SetCell(grid, f.row, f.col, num)
                   /\ pc' = "call"
              ELSE /\ UNCHANGED grid
                   /\ pc' = "loop"
    /\ UNCHANGED <<difficulty, solution, ret, rng, clues, cells_to_remove,
                   pick, raised, generations, asked, given>>

\* the candidates are exhausted: the call returns False
FillExhausted ==
    /\ pc = "loop"
    /\ Head(stack).random_nums = <<>>
    /\ stack' = Tail(stack)
    /\ ret' = FALSE
    /\ pc' = "return"
    /\ UNCHANGED <<difficulty, grid, solution, rng, clues, cells_to_remove,
                   pick, raised, generations, asked, given>>

\* the caller does not clear the cell after a failed recursive call
FillReturn_NoUndo ==
    /\ pc = "return"
    /\ stack # <<>>
    /\ IF ret
       THEN /\ stack' = Tail(stack)
            /\ pc' = "return"
       ELSE /\ pc' = "loop"
            /\ UNCHANGED stack
    /\ UNCHANGED <<difficulty, grid, solution, ret, rng, clues,
                   cells_to_remove, pick, raised, generations, asked, given>>

\* the caller gives up as soon as one recursive call fails
FillReturn_NoRetry ==
    /\ pc = "return"
    /\ stack # <<>>
    /\ IF ret
       THEN /\ stack' = Tail(stack)
            /\ pc' = "return"
            /\ UNCHANGED grid
       ELSE /\ grid' = SetCell(grid, Head(stack).row, Head(stack).col, 0)
            /\ pc' = "return"
            /\ stack' = Tail(stack)
    /\ UNCHANGED <<difficulty, solution, ret, rng, clues, cells_to_remove,
                   pick, raised, generations, asked, given>>

\* a recursive call has returned to its caller: on True the caller returns
\* True, on False it clears the cell and goes on with the next candidate
FillReturn ==
    /\ pc = "return"
    /\ stack # <<>>
    /\ IF ret
       THEN /\ stack' = Tail(stack)
            /\ pc' = "return"
            /\ UNCHANGED grid
       ELSE /\ grid' = SetCell(grid, Head(stack).row, Head(stack).col, 0)
            /\ pc' = "loop"
            /\ UNCHANGED stack
    /\ UNCHANGED <<difficulty, solution, ret, rng, clues, cells_to_remove,
                   pick, raised, generations, asked, given>>

Fill == FillCall \/ FillTry \/ FillExhausted \/ FillReturn

----------------------------------------------------------------------------
(* Constructor, generate_sudoku, _remove_cells *)

DIFFICULTY_SETTINGS ==
    [easy   |-> [min_clues |-> 36, max_clues |-> 42],
     medium |-> [min_clues |-> 32, max_clues |-> 35],
     hard   |-> [min_clues |-> 28, max_clues |-> 31],
     expert |-> [min_clues |-> 24, max_clues |-> 27],
     insane |-> [min_clues |-> 22, max_clues |-> 23]]

\* difficulty labels a caller may pass; "impossible" is not a key of the table
Requested == DOMAIN DIFFICULTY_SETTINGS \cup {"impossible"}

\* the constructor allocates the grid before it validates the label
Construct_LateCheck ==
    /\ pc = "new"
    /\ \E d \in Requested :
          /\ asked' = d
          /\ grid' = EmptyGrid
          /\ IF d \notin DOMAIN DIFFICULTY_SETTINGS
             THEN /\ raised' = "ValueError"
                  /\ pc' = "rejected"
                  /\ UNCHANGED <<difficulty, solution>>
             ELSE /\ difficulty' = d
                  /\ solution' = None
                  /\ pc' = "ready"
                  /\ UNCHANGED raised
    /\ UNCHANGED <<stack, ret, rng, clues, cells_to_remove, pick, generations,
                   given>>

\* SudokuGenerator(d): an unknown label raises ValueError before any
\* attribute is set
Construct ==
    /\ pc = "new"
    /\ \E d \in Requested :
          /\ asked' = d
          /\ IF d \notin DOMAIN DIFFICULTY_SETTINGS
             THEN /\ raised' = "ValueError"
                  /\ pc' = "rejected"
                  /\ UNCHANGED <<difficulty, grid, solution>>
             ELSE /\ difficulty' = d
                  /\ grid' = EmptyGrid
                  /\ solution' = None
                  /\ pc' = "ready"
                  /\ UNCHANGED raised
    /\ UNCHANGED <<stack, ret, rng, clues, cells_to_remove, pick, generations,
                   given>>

\* generate_sudoku, lines 120-122: a fresh all-zero grid, then _fill_grid
Generate ==
    /\ pc = "ready"
    /\ generations < MaxGenerations
    /\ grid' = EmptyGrid
    /\ given' = EmptyGrid
    /\ generations' = generations + 1
    /\ pc' = "call"
    /\ UNCHANGED <<difficulty, solution, stack, ret, rng, clues,
                   cells_to_remove, pick, raised, asked>>

\* generate_sudoku keeps the solution of its first call
SaveSolution_KeepFirst ==
    /\ pc = "return"
    /\ stack = <<>>
    /\ solution' = IF solution = None
                   THEN [r \in Idx |-> [c \in Idx |-> grid[r][c]]]
                   ELSE solution
    /\ pc' = "remove"
    /\ UNCHANGED <<difficulty, grid, stack, ret, rng, clues, cells_to_remove,
                   pick, raised, generations, asked, given>>

\* generate_sudoku, lines 124-126: the top-level _fill_grid has returned (its
\* result is discarded), the grid is copied row by row into self.solution
\* and _remove_cells is called
SaveSolution ==
    /\ pc = "return"
    /\ stack = <<>>
    /\ solution' = [r \in Idx |-> [c \in Idx |-> grid[r][c]]]
    /\ pc' = "remove"
    /\ UNCHANGED <<difficulty, grid, stack, ret, rng, clues, cells_to_remove,
                   pick, raised, generations, asked, given>>

\* _remove_cells drawing clues with an upper bound one too high
RemoveDraw_UpperBoundPlusOne ==
    /\ pc = "remove"
    /\ LET min_clues == DIFFICULTY_SETTINGS[difficulty].min_clues
           max_clues == DIFFICULTY_SETTINGS[difficulty].max_clues
       IN  \E n \in min_clues..(max_clues + 1) :
              /\ clues' = n
              /\ cells_to_remove' = 81 - n
    /\ pc' = "removing"
    /\ UNCHANGED <<difficulty, grid, solution, stack, ret, rng, pick, raised,
                   generations, asked, given>>

\* _remove_cells, lines 102-105
RemoveDraw ==
    /\ pc = "remove"
    /\ LET min_clues == DIFFICULTY_SETTINGS[difficulty].min_clues
           max_clues == DIFFICULTY_SETTINGS[difficulty].max_clues
       IN  \E n \in min_clues..max_clues :
              /\ clues' = n
              /\ cells_to_remove' = 81 - n
    /\ pc' = "removing"
    /\ UNCHANGED <<difficulty, grid, solution, stack, ret, rng, pick, raised,
                   generations, asked, given>>

\* the n smallest elements of a set of cell numbers
RECURSIVE Smallest(_, _)
Smallest(S, n) ==
    IF n = 0 \/ S = {} THEN {}
    ELSE LET m == CHOOSE x \in S : \A y \in S : x <= y
         IN  {m} \cup Smallest(S \ {m}, n - 1)

\* outcomes of (random.randint(0, 8), random.randint(0, 8)) the model draws,
\* as cell numbers 9 * row + col: the first PickWindow cells (row-major) that
\* hold a digit and the first cell that holds 0
Picks(g) ==
    Smallest({c \in 0..80 : g[c \div 9][c % 9] # 0}, PickWindow)
        \cup Smallest({c \in 0..80 : g[c \div 9][c % 9] = 0}, 1)

\* the removal loop with self.solution bound to the same list object as
\* self.grid
RemoveHit_Aliased ==
    /\ pc = "removing"
    /\ cells_to_remove > 0
    /\ \E c \in Picks(grid) :
          LET row == c \div 9
              col == c % 9
          IN  /\ grid[row][col] # 0
              /\ pick' = <<row, col>>
              /\ grid' = SetCell(grid, row, col, 0)
              /\ solution' = SetCell(solution, row, col, 0)
              /\ cells_to_remove' = cells_to_remove - 1
    /\ UNCHANGED <<pc, difficulty, stack, ret, rng, clues, raised,
                   generations, asked, given>>

\* one iteration of the removal loop whose cell holds a digit
RemoveHit ==
    /\ pc = "removing"
    /\ cells_to_remove > 0
    /\ \E c \in Picks(grid) :
          LET row == c \div 9
              col == c % 9
          IN  /\ grid[row][col] # 0
              /\ pick' = <<row, col>>
              /\ grid' = SetCell(grid, row, col, 0)
              /\ cells_to_remove' = cells_to_remove - 1
    /\ UNCHANGED <<pc, difficulty, solution, stack, ret, rng, clues, raised,
                   generations, asked, given>>

\* the removal loop decrementing its counter outside the `if`
RemoveMiss_Decrements ==
    /\ pc = "removing"
    /\ cells_to_remove > 0
    /\ \E c \in Picks(grid) :
          LET row == c \div 9
              col == c % 9
          IN  /\ grid[row][col] = 0
              /\ pick' = <<row, col>>
    /\ cells_to_remove' = cells_to_remove - 1
    /\ UNCHANGED <<pc, difficulty, grid, solution, stack, ret, rng, clues,
                   raised, generations, asked, given>>

\* one iteration of the removal loop whose cell is already zero
RemoveMiss ==
    /\ pc = "removing"
    /\ cells_to_remove > 0
    /\ \E c \in Picks(grid) :
          LET row == c \div 9
              col == c % 9
          IN  /\ grid[row][col] = 0
              /\ pick' = <<row, col>>
    /\ UNCHANGED <<pc, difficulty, grid, solution, stack, ret, rng, clues,
                   cells_to_remove, raised, generations, asked, given>>

\* the loop condition fails: _remove_cells and generate_sudoku return
RemoveDone ==
    /\ pc = "removing"
    /\ ~(cells_to_remove > 0)
    /\ pc' = "ready"
    /\ clues' = 0
    /\ cells_to_remove' = 0
    /\ pick' = <<>>
    /\ UNCHANGED <<difficulty, grid, solution, stack, ret, rng, raised,
                   generations, asked, given>>

Init ==
    /\ pc = "new"
    /\ difficulty = "None"
    /\ grid = None
    /\ solution = None
    /\ stack = <<>>
    /\ ret = FALSE
    /\ rng \in 0..(NumSeeds - 1)
    /\ clues = 0
    /\ cells_to_remove = 0
    /\ pick = <<>>
    /\ raised = "None"
    /\ generations = 0
    /\ asked = "None"
    /\ given = None

Next ==
    \/ Construct
    \/ Generate
    \/ FillCall
    \/ FillTry
    \/ FillExhausted
    \/ FillReturn
    \/ SaveSolution
    \/ RemoveDraw
    \/ RemoveHit
    \/ RemoveMiss
    \/ RemoveDone

Spec == Init /\ [][Next]_vars

----------------------------------------------------------------------------
(* generate_sudoku up to the stored solution, from every generator state *)

\* SudokuGenerator() with the default difficulty, generate_sudoku entered
InitFill ==
    /\ pc = "call"
    /\ difficulty = "medium"
    /\ grid = EmptyGrid
    /\ solution = None
    /\ stack = <<>>
    /\ ret = FALSE
    /\ rng \in 0..(RngPeriod - 1)
    /\ clues = 0
    /\ cells_to_remove = 0
    /\ pick = <<>>
    /\ raised = "None"
    /\ generations = 1
    /\ asked = "medium"
    /\ given = EmptyGrid

NextFill ==
    \/ FillCall
    \/ FillTry
    \/ FillExhausted
    \/ FillReturn
    \/ SaveSolution

SpecFill == InitFill /\ [][NextFill]_vars

----------------------------------------------------------------------------
(* _fill_grid called on partially filled grids *)

\* a complete grid _fill_grid produces (candidates tried in ascending order)
BaseRows ==
    << <<1, 2, 3, 4, 5, 6, 7, 8, 9>>,
       <<4, 5, 6, 7, 8, 9, 1, 2, 3>>,
       <<7, 8, 9, 1, 2, 3, 4, 5, 6>>,
       <<2, 1, 4, 3, 6, 5, 8, 9, 7>>,
       <<3, 6, 5, 8, 9, 7, 2, 1, 4>>,
       <<8, 9, 7, 2, 1, 4, 3, 6, 5>>,
       <<5, 3, 1, 6, 4, 2, 9, 7, 8>>,
       <<6, 4, 2, 9, 7, 8, 5, 3, 1>>,
       <<9, 7, 8, 5, 3, 1, 6, 4, 2>> >>

Base == [r \in Idx |-> [c \in Idx |-> BaseRows[r + 1][c + 1]]]

\* cells (9 * row + col) of Base an input may differ in
EditCells == <<0, 1, 27, 28, 4, 5, 31, 32>>

\* Base with the cells of `blank` set to 0
RECURSIVE Blanked(_, _)
Blanked(g, blank) ==
    IF blank = {} THEN g
    ELSE LET c == CHOOSE x \in blank : TRUE
         IN  Blanked(SetCell(g, c \div 9, c % 9, 0), blank \ {c})

\* the input grids: the all-zero grid, and Base with any subset of the first
\* BlankSpan cells of EditCells blanked and at most one of the others
\* overwritten with another digit
PartialInputs ==
    LET region == {EditCells[i] : i \in 1..BlankSpan} IN
    {EmptyGrid} \cup UNION {
        LET g == Blanked(Base, blank) IN
        {g} \cup {SetCell(g, c \div 9, c % 9, d) :
                     c \in region \ blank, d \in Digits}
        : blank \in SUBSET region}

InitPartial ==
    /\ pc = "call"
    /\ difficulty = "medium"
    /\ grid \in PartialInputs
    /\ given = grid
    /\ solution = None
    /\ stack = <<>>
    /\ ret = FALSE
    /\ rng \in 0..(NumSeeds - 1)
    /\ clues = 0
    /\ cells_to_remove = 0
    /\ pick = <<>>
    /\ raised = "None"
    /\ generations = 0
    /\ asked = "medium"

SpecPartial == InitPartial /\ [][Fill]_vars
----------------------------------------------------------------------------
(* The solution invariant, stated independently of _is_valid *)

Cells == 0..80

At(g, c) == g[c \div 9][c % 9]

RowUnit(r) == {9 * r + c : c \in Idx}
ColUnit(c) == {9 * r + c : r \in Idx}
BoxUnit(b) == {9 * (3 * (b \div 3) + i) + 3 * (b % 3) + j : i \in 0..2, j \in 0..2}
Units == {RowUnit(r) : r \in Idx} \cup {ColUnit(c) : c \in Idx}
             \cup {BoxUnit(b) : b \in Idx}

\* every row, column and box holds each digit 1..9 exactly once
Solved(g) ==
    \A u \in Units : \A d \in Digits :
        Cardinality({c \in u : At(g, c) = d}) = 1

\* the top-level _fill_grid call has returned
TopReturned == pc = "return" /\ stack = <<>>

----------------------------------------------------------------------------
(* Claims about _fill_grid started on the all-zero grid (SpecFill) *)

\* C1: whenever _fill_grid, started on the all-zero grid, returns success,
\* the grid has no zero and every row, column and box holds each digit 1..9
\* exactly once; the solution stored by generate_sudoku is such a grid too.
C1_FilledGridIsValid ==
    /\ (TopReturned /\ given = EmptyGrid /\ ret) =>
           (NonZero(grid) = 81 /\ Solved(grid))
    /\ (solution # None) => (NonZero(solution) = 81 /\ Solved(solution))

\* a run in which the filler has succeeded and the solution has been stored
C1_Witness ==
    /\ pc = "remove"
    /\ ret
    /\ given = EmptyGrid
    /\ solution = grid
    /\ NonZero(solution) = 81

\* C6 as stated: on the final solution grid _is_valid accepts, for every cell,
\* the placed digit and no other digit.
C6_Original ==
    (solution # None) =>
        \A c \in Cells : \A d \in Digits :
            is_valid(solution, c \div 9, c % 9, d) <=> (d = At(solution, c))

\* C6 (amended): on the final solution grid _is_valid rejects, for every
\* cell, every digit other than the placed one; as its scan includes the cell
\* itself it rejects the placed digit as well, and the placed digit is the one
\* digit it accepts for the cell once that cell is cleared to 0.
C6_OneLegalDigitOnceCleared ==
    (solution # None) =>
        \A c \in Cells : \A d \in Digits :
            /\ ~is_valid(solution, c \div 9, c % 9, d)
            /\ is_valid(SetCell(solution, c \div 9, c % 9, 0), c \div 9, c % 9, d)
                   <=> (d = At(solution, c))

\* a stored solution on which the check is run for a placed digit
C6_Witness ==
    /\ solution # None
    /\ Solved(solution)
    /\ \E c \in Cells :
          /\ ~is_valid(solution, c \div 9, c % 9, At(solution, c))
          /\ is_valid(SetCell(solution, c \div 9, c % 9, 0), c \div 9, c % 9,
                      At(solution, c))

\* the program always takes its next step while filling
FairFill == SpecFill /\ WF_vars(NextFill)

\* C8: started on the all-zero grid, _fill_grid terminates on every run and
\* returns success, never failure, so that generate_sudoku stores a solution
\* without a zero.
C8_FillTerminatesWithSuccess ==
    /\ <>(pc = "remove" /\ ret /\ NonZero(solution) = 81)
    /\ []((TopReturned /\ given = EmptyGrid) => ret)
    /\ []((solution # None) => NonZero(solution) = 81)

\* the outermost call on the all-zero grid has just returned success
C8_Witness ==
    /\ TopReturned
    /\ given = EmptyGrid
    /\ ret
    /\ solution = None
    /\ NonZero(grid) = 81

----------------------------------------------------------------------------
(* Claims about _fill_grid called on any grid (SpecPartial) *)

\* no digit occurs twice in a row, column or box
Consistent(g) ==
    \A u \in Units : \A d \in Digits :
        Cardinality({c \in u : At(g, c) = d}) <= 1

\* some assignment of digits to the cells of `zeros` makes g a solved grid
RECURSIVE CompletableOn(_, _)
CompletableOn(g, zeros) ==
    IF zeros = {} THEN Solved(g)
    ELSE LET z == CHOOSE x \in zeros : TRUE IN
         \E d \in Digits :
            /\ \A u \in Units : z \in u => \A c \in u : At(g, c) # d
            /\ CompletableOn(SetCell(g, z \div 9, z % 9, d), zeros \ {z})

\* a valid completion of g exists
Completable(g) == CompletableOn(g, {c \in Cells : At(g, c) = 0})

\* C5 as stated: for every input grid, _fill_grid returns failure whenever no
\* valid completion exists and never returns success with a grid that breaks
\* the solution invariant.
C5_Original ==
    TopReturned =>
        /\ ~Completable(given) => ~ret
        /\ ret => Solved(grid)

\* C5 (amended): for every input grid whose non-zero cells do not already
\* break a row, column or box constraint, _fill_grid returns failure whenever
\* no valid completion exists and never returns success with a grid that
\* breaks the solution invariant.
C5_FailsWithoutCompletion ==
    (TopReturned /\ Consistent(given)) =>
        /\ ~Completable(given) => ~ret
        /\ ret => Solved(grid)

\* a consistent partial input without completion, on which the call has
\* returned failure
C5_Witness ==
    /\ TopReturned
    /\ NonZero(given) \in 1..80
    /\ Consistent(given)
    /\ ~Completable(given)
    /\ ~ret

\* C10: whenever a call of _fill_grid returns failure the grid is cell for
\* cell the grid at entry to that call, and no call changes a cell that was
\* non-zero at its entry.
C10_UndoIsComplete ==
    [][/\ (pc = "loop" /\ pc' = "return") => grid' = Head(stack).entry
       /\ \A i \in 1..Len(stack') : \A c \in Cells :
             At(stack'[i].entry, c) # 0 => At(grid', c) = At(stack'[i].entry, c)
       /\ (pc' \in {"call", "loop", "return"}) =>
             \A c \in Cells : At(given', c) # 0 => At(grid', c) = At(given', c)
      ]_vars

\* a recursive call that had placed a digit returns failure
C10_Witness ==
    /\ pc = "loop"
    /\ Len(stack) >= 2
    /\ Head(stack).random_nums = <<>>
    /\ \E c \in Cells : At(Head(stack).entry, c) = 0 /\ At(given, c) = 0
    /\ ~ret
    /\ grid = Head(stack).entry

----------------------------------------------------------------------------
(* Claims about the constructor, generate_sudoku and _remove_cells (Spec) *)

\* generate_sudoku has returned
Generated == pc = "ready" /\ generations > 0

\* C2: when generate_sudoku returns, the number of non-zero cells of the
\* puzzle grid lies in the closed interval [min_clues, max_clues] of the
\* generator's difficulty tier.
C2_ClueCountInTier ==
    Generated =>
        NonZero(grid) \in DIFFICULTY_SETTINGS[difficulty].min_clues ..
                          DIFFICULTY_SETTINGS[difficulty].max_clues

\* an "insane" puzzle at the lower end of its interval
C2_Witness ==
    /\ Generated
    /\ difficulty = "insane"
    /\ NonZero(grid) = 22

\* C3: after every generate_sudoku call, repeated ones included, every
\* non-zero cell of the puzzle equals the same cell of the solution, and the
\* puzzle with its zero cells copied from the solution is the solution.
C3_PuzzleAgreesWithSolution ==
    Generated =>
        /\ \A c \in Cells : At(grid, c) # 0 => At(grid, c) = At(solution, c)
        /\ [r \in Idx |-> [c \in Idx |->
               IF grid[r][c] = 0 THEN solution[r][c] ELSE grid[r][c]]] = solution

\* a repeated generate_sudoku call on the same object has returned
C3_Witness ==
    /\ Generated
    /\ generations >= 2
    /\ NonZero(grid) < 81
    /\ \E c \in Cells : At(grid, c) # 0 /\ At(grid, c) = At(solution, c)

\* C4: a difficulty that is not one of the five labels fails with ValueError
\* before any grid work: no grid is allocated, filled or mutated and no
\* reduction step runs.
C4_InvalidDifficultyRejected ==
    (asked # "None" /\ asked \notin DOMAIN DIFFICULTY_SETTINGS) =>
        /\ raised = "ValueError"
        /\ pc = "rejected"
        /\ difficulty = "None"
        /\ grid = None
        /\ solution = None
        /\ stack = <<>>
        /\ generations = 0
        /\ cells_to_remove = 0
        /\ pick = <<>>

\* the constructor has been called with "impossible"
C4_Witness ==
    /\ asked = "impossible"
    /\ raised = "ValueError"

\* C7: no step of _remove_cells changes the solution grid, the solution is
\* the grid the filler produced (no zero entries), and the only change the
\* reducer makes to the puzzle grid is turning a non-zero cell into 0.
C7_ReducerWorksOnCopy ==
    [][/\ (pc \in {"remove", "removing"}) =>
             /\ solution' = solution
             /\ \A c \in Cells :
                   At(grid', c) # At(grid, c) => (At(grid, c) # 0 /\ At(grid', c) = 0)
       /\ (pc = "return" /\ pc' = "remove") =>
             (solution' = grid /\ grid' = grid)
       /\ (pc' = "ready" /\ generations' > 0) => NonZero(solution') = 81
      ]_vars

\* the reducer has zeroed cells of the puzzle while the solution is complete
C7_Witness ==
    /\ pc = "removing"
    /\ cells_to_remove > 0
    /\ NonZero(grid) < 81
    /\ NonZero(solution) = 81

\* _remove_cells entered by generate_sudoku with a complete grid just stored
\* as the solution, for every difficulty tier
InitRemove ==
    /\ pc = "remove"
    /\ difficulty \in DOMAIN DIFFICULTY_SETTINGS
    /\ asked = difficulty
    /\ grid = Base
    /\ solution = Base
    /\ given = EmptyGrid
    /\ stack = <<>>
    /\ ret = TRUE
    /\ rng = 0
    /\ clues = 0
    /\ cells_to_remove = 0
    /\ pick = <<>>
    /\ raised = "None"
    /\ generations = 1

NextRemove ==
    \/ RemoveDraw
    \/ RemoveHit
    \/ RemoveMiss
    \/ RemoveDone

SpecRemove == InitRemove /\ [][NextRemove]_vars

\* a cell that holds a digit is eventually drawn
FairRemove == SpecRemove /\ WF_vars(RemoveHit)

\* C9: every iteration of the removal loop either zeroes one non-zero cell
\* and decrements the counter by one, or (cell already zero) changes neither
\* grid nor counter; the counter is never negative and never exceeds the
\* number of non-zero cells left; if a non-zero cell is eventually drawn the
\* loop stops with the counter at 0 and exactly 81 - clues cells zeroed.
C9_RemovalLoop ==
    /\ [][(pc = "removing" /\ pc' = "removing") =>
             LET row == pick'[1]
                 col == pick'[2]
             IN  \/ /\ grid[row][col] # 0
                    /\ grid' = SetCell(grid, row, col, 0)
                    /\ cells_to_remove' = cells_to_remove - 1
                 \/ /\ grid[row][col] = 0
                    /\ grid' = grid
                    /\ cells_to_remove' = cells_to_remove
          ]_vars
    /\ []((pc = "removing") =>
             /\ cells_to_remove >= 0
             /\ cells_to_remove <= NonZero(grid)
             /\ cells_to_remove = NonZero(grid) - clues)
    /\ (pc = "removing") ~>
          (pc = "removing" /\ cells_to_remove = 0 /\ 81 - NonZero(grid) = 81 - clues)

\* the loop has stopped after drawing cells
C9_Witness ==
    /\ pc = "removing"
    /\ pick # <<>>
    /\ cells_to_remove = 0
    /\ NonZero(grid) = clues
====
